---- MODULE Spec2Model ----
(***************************************************************************)
(* Execution pipeline of the eval runner: retry orchestrator, batch        *)
(* scheduler, evaluator dispatch, rate limiter and response cache.         *)
(*                                                                         *)
(* Each component has its own specification over the shared variables; a   *)
(* specification leaves the variables of the other components at their     *)
(* initial values.                                                         *)
(***************************************************************************)
EXTENDS Integers, Sequences, FiniteSets, TLC

VARIABLES
    \* ---- runTestCaseWithRetry (one call) ----
    MAX_RETRIES,    \* parseInt(process.env.MAX_RETRIES || '2')
    rPc,            \* "loop" | "sleep" | "done"
    attempt,        \* the loop variable
    lastError,      \* the local lastError
    rCalls,         \* number of times runTestCase was invoked
    rErrors,        \* error of every failed attempt so far, in order
    rWaits,         \* the sleep() durations waited so far, in order
    rRet,           \* the returned record (NoRecord until done)
    \* ---- runEval (one call) ----
    parallel,       \* cliConfig.parallel
    PARALLEL_LIMIT, \* parseInt(process.env.PARALLEL_LIMIT || '3')
    cliProvider,    \* cliConfig.provider ("" when not given)
    models,         \* evalConfig.models: the provider field of each ("" when absent)
    ePc,            \* "start" | "seq" | "par" | "done" | "thrown"
    idx,            \* index into runs of the next execution / of the batch
    slots,          \* run index -> state of its execution, for those started
    results,        \* the local results
    trace,          \* the trace object
    traceFiles,     \* traces written to the traces directory
    eThrown,        \* the error runEval threw (Null when none)
    eFailedPairs,   \* run indices whose provider could not be resolved
    eCompleted,     \* run indices in the order their executions completed
    \* ---- evaluate (one call) ----
    vCase,          \* the test case
    vResponse,      \* the response text, a sequence of words
    vEnv,           \* judge provider, judge reply, embedding similarity
    vPc,            \* "call" | "returned"
    vOut,           \* what evaluate returned or threw
    \* ---- one RateLimiter and the execute calls on it ----
    requestTokens,  \* this.requestTokens, in 1/MinuteTicks of a request
    tokenBucket,    \* this.tokenBucket, in 1/MinuteTicks of a token
    lAge,           \* Date.now() - this.lastRefill, in ticks
    lPc,            \* caller -> "idle" | "wait" | "sleep" | "call" | "backoff"
                    \*           | "returned" | "thrown"
    lTimer,         \* caller -> ticks left of its setTimeout
    lCalls,         \* execute calls started so far
    lUsage,         \* caller -> usage.total_tokens of the result its call returned
    \* ---- the response cache and the executions that use it ----
    now,            \* Date.now(), in ticks
    files,          \* cache key -> text of .cache/<key>.json
    cRet,           \* what the last clearCache call returned or threw
    cReplaced,      \* the last write replaced an entry of its key
    cLast,          \* key -> entry of the last write that reached the disk
    xPc,            \* execution -> "idle" | "calling" | "done"
    xReq,           \* execution -> its completion request
    xUse,           \* execution -> USE_CACHE && !options.noCache
    xGot,           \* execution -> what getCachedResponse returned to it
    xOut,           \* execution -> [fromCache, result] or the caught error
    xWrite,         \* execution -> how its setCachedResponse call went:
                    \*              "none" | "written" | "failed"
    cWarned,        \* a 'Cache write failed' warning has been logged
    \* ---- compareTraces (one call) ----
    gOld,           \* the file of the old trace id (TraceFile or NoTraceFile)
    gNew,           \* the file of the new trace id
    gPc,            \* "call" | "loop" | "returned" | "thrown"
    oldResults,     \* the lookup of the old results by key
    gNext,          \* index into newTrace.results of the next result
    regressions,    \* the local regressions
    improvements,   \* the local improvements
    \* ---- the limiters of the providers and the withRateLimit calls on them ----
    limiters,       \* the module's Map: provider name -> its RateLimiter object
    pObjects,       \* RateLimiter object -> its requestTokens, tokenBucket, lastRefill
    pNow,           \* Date.now(), in ticks
    pPc,            \* caller -> "idle" | "wait" | "sleep" | "call"
    pProvider,      \* caller -> the provider name of its withRateLimit call
    pLimiter,       \* caller -> the RateLimiter object getRateLimiter returned to it
    pCalls,         \* withRateLimit calls started so far
    \* ---- stripThinkingTags and evaluate on texts with thinking tags ----
    sText,          \* the response text
    sCase,          \* the test case
    sEnv,           \* judge provider, judge reply, embedding similarity
    sPc,            \* "call" | "returned"
    sClean,         \* what stripThinkingTags returned for the response
    sOut            \* what evaluate returned or threw

retryVars == <<MAX_RETRIES, rPc, attempt, lastError, rCalls, rErrors, rWaits, rRet>>

evalRunVars == <<parallel, PARALLEL_LIMIT, cliProvider, models, ePc, idx, slots,
                 results, trace, traceFiles, eThrown, eFailedPairs, eCompleted>>

evaluateVars == <<vCase, vResponse, vEnv, vPc, vOut>>

limiterVars == <<requestTokens, tokenBucket, lAge, lPc, lTimer, lCalls, lUsage>>

cacheVars == <<now, files, cRet, cReplaced, cLast, xPc, xReq, xUse, xGot, xOut,
               xWrite, cWarned>>

compareVars == <<gOld, gNew, gPc, oldResults, gNext, regressions, improvements>>

registryVars == <<limiters, pObjects, pNow, pPc, pProvider, pLimiter, pCalls>>

sanitizeVars == <<sText, sCase, sEnv, sPc, sClean, sOut>>

vars ==
    <<retryVars, evalRunVars, evaluateVars, limiterVars, cacheVars,
      compareVars, registryVars, sanitizeVars>>

\* What a step of runTestCaseWithRetry leaves alone.
RetryFrame ==
    UNCHANGED <<evalRunVars, evaluateVars, limiterVars, cacheVars, compareVars,
                registryVars, sanitizeVars>>

\* What a step of runEval leaves alone.
EvalRunFrame ==
    UNCHANGED <<retryVars, evaluateVars, limiterVars, cacheVars, compareVars,
                registryVars, sanitizeVars>>

\* What a step of evaluate leaves alone.
EvaluateFrame ==
    UNCHANGED <<retryVars, evalRunVars, limiterVars, cacheVars, compareVars,
                registryVars, sanitizeVars>>

\* What a step of the RateLimiter leaves alone.
LimiterFrame ==
    UNCHANGED <<retryVars, evalRunVars, evaluateVars, cacheVars, compareVars,
                registryVars, sanitizeVars>>

\* What a step of the cache leaves alone.
CacheFrame ==
    UNCHANGED <<retryVars, evalRunVars, evaluateVars, limiterVars, compareVars,
                registryVars, sanitizeVars>>

\* What a step of compareTraces leaves alone.
CompareFrame ==
    UNCHANGED <<retryVars, evalRunVars, evaluateVars, limiterVars, cacheVars,
                registryVars, sanitizeVars>>

\* What a step of a withRateLimit call leaves alone.
RegistryFrame ==
    UNCHANGED <<retryVars, evalRunVars, evaluateVars, limiterVars, cacheVars,
                compareVars, sanitizeVars>>

\* What a step of the sanitizer leaves alone.
SanitizeFrame ==
    UNCHANGED <<retryVars, evalRunVars, evaluateVars, limiterVars, cacheVars,
                compareVars, registryVars>>

(***************************************************************************)
(* Values                                                                  *)
(***************************************************************************)

\* JavaScript null for an error text.  Error texts are sequences of words.
Null == <<>>

\* A field that is absent from an object is the empty set, a present one a
\* singleton.
Undefined == {}

\* Largest MAX_RETRIES configured in the model.
MaxRetriesCfg == 3

RETRY_DELAY_MS == 1000

\* String.prototype.includes at word granularity: pat occurs in msg as a
\* contiguous run of words.
Includes(msg, pat) ==
    \E i \in 0..(Len(msg) - Len(pat)) :
        \A j \in 1..Len(pat) : msg[i + j] = pat[j]

\* Error texts the execution step can fail with.
ErrNoKey      == <<"OpenAI", "API", "key", "not", "configured">>
ErrBadKey     == <<"OpenAI", "error:", "401", "-", "invalid", "API", "key">>
ErrNotConf    == <<"Ollama", "error:", "404", "-", "model", "not", "configured">>
ErrServer     == <<"Ollama", "error:", "500", "-", "internal">>
ErrNoJudge    == <<"No", "judge", "provider", "available">>

ErrorTexts == {ErrNoKey, ErrBadKey, ErrNotConf, ErrServer, ErrNoJudge}

\* pass is true, false or null.
\* pass is true, false or null; the existence check of an empty response
\* yields the empty string.
PassValues == {"true", "false", "null", ""}

NoRecord == [kind |-> "none"]

(***************************************************************************)
(* runTestCase: the record it returns.  Its outcome (a completion that was *)
(* scored, or an exception caught at the end) is the input.                *)
(***************************************************************************)

\* The success record.
RunTestCaseOk(pass, fromCache) ==
    [kind |-> "record", success |-> TRUE, error |-> Null, pass |-> pass,
     evalType |-> "scored", fromCache |-> {fromCache}, retries |-> Undefined]

\* The record built in the catch block.
RunTestCaseCaught(message) ==
    [kind |-> "record", success |-> FALSE, error |-> message, pass |-> "false",
     evalType |-> "error", fromCache |-> Undefined, retries |-> Undefined]

AttemptResults ==
    {RunTestCaseOk(p, c) : p \in PassValues, c \in BOOLEAN}
        \cup {RunTestCaseCaught(m) : m \in ErrorTexts}

(***************************************************************************)
(* runTestCaseWithRetry                                                    *)
(***************************************************************************)

\* "Don't retry on certain errors"
NonRetryableApiKeyOnly(error) ==
    error # Null /\ Includes(error, <<"API", "key">>)

NonRetryable(error) ==
    error # Null
      /\ (Includes(error, <<"API", "key">>) \/ Includes(error, <<"not", "configured">>))

\* result.retries = attempt - 1, only if attempt > 1
WithRetriesAlways(result, att) == [result EXCEPT !.retries = {att}]

WithRetries(result, att) ==
    IF att > 1 THEN [result EXCEPT !.retries = {att - 1}] ELSE result

\* The record synthesized after the loop.
TerminalRecord(err, max) ==
    [kind |-> "record", success |-> FALSE, error |-> err, pass |-> "false",
     evalType |-> "error", fromCache |-> Undefined, retries |-> {max}]

\* The loop condition  attempt <= MAX_RETRIES + 1
LoopContinuesOneLess(att, max) == att <= max

LoopContinues(att, max) == att <= max + 1

\* The wait after failed attempt att:  RETRY_DELAY_MS * attempt
BackoffDelayDoubling(att) == RETRY_DELAY_MS * 2 ^ (att - 1)

BackoffDelay(att) == RETRY_DELAY_MS * att

\* How a reader takes the retry count of a record:  result.retries ? ... : ''
RetryCount(record) ==
    IF record.retries = Undefined THEN 0 ELSE CHOOSE k \in record.retries : TRUE

RetryInit ==
    /\ MAX_RETRIES \in 0..MaxRetriesCfg
    /\ rPc = "loop"
    /\ attempt = 1
    /\ lastError = Null
    /\ rCalls = 0
    /\ rErrors = <<>>
    /\ rWaits = <<>>
    /\ rRet = NoRecord

\* One iteration of the loop up to its return or its sleep.
RetryAttempt ==
    /\ rPc = "loop"
    /\ LoopContinues(attempt, MAX_RETRIES)
    /\ \E result \in AttemptResults :
        /\ rCalls' = rCalls + 1
        /\ IF result.success
           THEN /\ rRet' = WithRetries(result, attempt)
                /\ rPc' = "done"
                /\ UNCHANGED <<lastError, rErrors, attempt>>
           ELSE /\ lastError' = result.error
                /\ rErrors' = Append(rErrors, result.error)
                /\ IF NonRetryable(result.error)
                   THEN /\ rRet' = result
                        /\ rPc' = "done"
                        /\ UNCHANGED attempt
                   ELSE IF attempt <= MAX_RETRIES
                   THEN /\ rPc' = "sleep"
                        /\ UNCHANGED <<rRet, attempt>>
                   ELSE /\ rPc' = "loop"
                        /\ attempt' = attempt + 1
                        /\ UNCHANGED rRet
    /\ UNCHANGED <<MAX_RETRIES, rWaits>>
    /\ RetryFrame

\* await sleep(RETRY_DELAY_MS * attempt), then the next iteration.
RetrySleep ==
    /\ rPc = "sleep"
    /\ rWaits' = Append(rWaits, BackoffDelay(attempt))
    /\ attempt' = attempt + 1
    /\ rPc' = "loop"
    /\ UNCHANGED <<MAX_RETRIES, lastError, rCalls, rErrors, rRet>>
    /\ RetryFrame

\* The loop is over: the terminal failing record.
RetryExhausted ==
    /\ rPc = "loop"
    /\ ~LoopContinues(attempt, MAX_RETRIES)
    /\ rRet' = TerminalRecord(lastError, MAX_RETRIES)
    /\ rPc' = "done"
    /\ UNCHANGED <<MAX_RETRIES, attempt, lastError, rCalls, rErrors, rWaits>>
    /\ RetryFrame

RetryNext == RetryAttempt \/ RetrySleep \/ RetryExhausted

(***************************************************************************)
(* Claims about runTestCaseWithRetry                                       *)
(***************************************************************************)

\* A configuration error, as the retry policy words it.
IsConfigurationError(text) ==
    Includes(text, <<"API", "key">>) \/ Includes(text, <<"not", "configured">>)

AllRetryable(errs) == \A i \in 1..Len(errs) : ~IsConfigurationError(errs[i])

\* C1: an attempt that fails with a configuration error is the last attempt:
\* the call is over, the execution step ran once for it, no backoff wait
\* followed it, and the returned record is that failure with retry count 0.
C1_ConfigErrorAborts ==
    \A i \in 1..Len(rErrors) :
        IsConfigurationError(rErrors[i]) =>
            /\ i = Len(rErrors)
            /\ rCalls = i
            /\ Len(rWaits) = i - 1
            /\ rPc = "done"
            /\ rRet = RunTestCaseCaught(rErrors[i])
            /\ RetryCount(rRet) = 0

C1_Witness ==
    /\ rPc = "done"
    /\ MAX_RETRIES >= 2
    /\ rErrors = <<ErrNotConf>>
    /\ rCalls = 1

\* C2: when the first k attempts (1 <= k <= MAX_RETRIES) fail with retryable
\* errors and attempt k+1 succeeds, the successful record is returned and
\* its retry count is k.
C2_LateSuccessCountsRetries ==
    (rPc = "done" /\ rCalls = Len(rErrors) + 1 /\ Len(rErrors) >= 1) =>
        /\ rRet.kind = "record"
        /\ rRet.success
        /\ rRet.retries = {Len(rErrors)}
        /\ Len(rErrors) <= MAX_RETRIES
        /\ AllRetryable(rErrors)

C2_Witness ==
    /\ rPc = "done"
    /\ MAX_RETRIES = 2
    /\ Len(rErrors) = 2
    /\ rRet.kind = "record"
    /\ rRet.success

\* C3: when every attempt fails with a retryable error the execution step is
\* invoked exactly MAX_RETRIES + 1 times, and the record returned then is a
\* failure carrying the error of the last attempt and retry count
\* MAX_RETRIES.
C3_ExhaustionRecord ==
    (rPc = "done" /\ rCalls = Len(rErrors) /\ AllRetryable(rErrors)) =>
        /\ rCalls = MAX_RETRIES + 1
        /\ Len(rWaits) = MAX_RETRIES
        /\ rRet.kind = "record"
        /\ ~rRet.success
        /\ rRet.error = rErrors[Len(rErrors)]
        /\ rRet.retries = {MAX_RETRIES}

C3_Witness ==
    /\ rPc = "done"
    /\ MAX_RETRIES = 2
    /\ rCalls = 3
    /\ rErrors = <<ErrServer, ErrServer, ErrNoJudge>>
    /\ ~rRet.success

PROVIDERS == {"ollama", "openrouter", "openai", "anthropic", "google"}

ErrUnknownProvider == <<"Unknown", "provider:", "bogus.", "Available:", "ollama,", "openrouter">>
ErrNoProviders == <<"No", "LLM", "providers", "available.", "Please", "configure">>
ErrTraceWrite == <<"ENOSPC:", "no", "space", "left", "on", "device,", "write">>

Resolved(name) == [ok |-> TRUE, name |-> name, error |-> Null]
Threw(message) == [ok |-> FALSE, name |-> "", error |-> message]

\* getProvider(name): the instance, or the exception for an unknown name.
GetProvider(name) ==
    IF name \in PROVIDERS THEN Resolved(name) ELSE Threw(ErrUnknownProvider)

\* getDefaultProvider(): the first available provider; available is its name,
\* "" when isAvailable() is false for all of them.
GetDefaultProvider(available) ==
    IF available # "" THEN GetProvider(available) ELSE Threw(ErrNoProviders)

\* The provider selection of runEval, the same in both branches.
ResolveProvider(cli, modelProvider, available) ==
    IF cli # "" THEN GetProvider(cli)
    ELSE IF modelProvider # "" THEN GetProvider(modelProvider)
    ELSE GetDefaultProvider(available)

(***************************************************************************)
(* Trace recorder                                                          *)
(***************************************************************************)

NoTrace == [created |-> FALSE, results |-> <<>>, sealed |-> FALSE, summary |-> <<>>]

\* createTrace(evalConfig)
CreateTrace == [created |-> TRUE, results |-> <<>>, sealed |-> FALSE, summary |-> <<>>]

\* The record addTraceResult pushes for a result.
TraceRecord(result) ==
    [testCase |-> result.testCase, model |-> result.model,
     provider |-> result.provider, success |-> result.success,
     pass |-> result.pass, evalType |-> result.evalType,
     error |-> result.error]

\* addTraceResult(trace, result)
AddTraceResultFirst(t, result) ==
    [t EXCEPT !.results = <<TraceRecord(result)>> \o t.results]

AddTraceResult(t, result) ==
    [t EXCEPT !.results = Append(t.results, TraceRecord(result))]

\* saveTrace(trace, summary) up to the write.
SealTrace(t, summary) == [t EXCEPT !.sealed = TRUE, !.summary = summary]

(***************************************************************************)
(* runEval                                                                 *)
(***************************************************************************)

\* Number of test cases of the eval definition.
NumTestCases == 2

\* Largest PARALLEL_LIMIT configured in the model.
MaxParallelCfg == 2

\* The provider field of a model config: a known name, an unknown one, none.
ProviderFields == {"ollama", "bogus", ""}

ModelLists == [1..2 -> ProviderFields]

NumRuns == NumTestCases * Len(models)

\* runs[k]: the nested loops push test-case-major.
RunAtModelMajor(k) ==
    [testCase |-> ((k - 1) % NumTestCases) + 1,
     model |-> ((k - 1) \div NumTestCases) + 1]

RunAt(k) ==
    [testCase |-> ((k - 1) \div Len(models)) + 1,
     model |-> ((k - 1) % Len(models)) + 1]

\* What runTestCaseWithRetry can return for a pair.
RunResults(max) ==
    { RunTestCaseOk("true", FALSE),
      WithRetries(RunTestCaseOk("null", TRUE), 2),
      RunTestCaseOk("", FALSE),
      RunTestCaseCaught(ErrNoKey),
      TerminalRecord(ErrServer, max) }

\* The result of the pair runs[k] run with a provider.
ResultOf(k, providerName, record) ==
    [testCase |-> RunAt(k).testCase, model |-> RunAt(k).model,
     provider |-> providerName, success |-> record.success,
     pass |-> record.pass, evalType |-> record.evalType,
     error |-> record.error, retries |-> record.retries,
     fromCache |-> record.fromCache]

Count(seq, P(_)) == Cardinality({i \in 1..Len(seq) : P(seq[i])})

IsPassed(r) == r.pass = "true"
IsFailed(r) == r.pass = "false"
IsError(r) == ~r.success

\* The summary object.
Summary(res) ==
    [passed |-> Count(res, IsPassed), failed |-> Count(res, IsFailed),
     errors |-> Count(res, IsError), total |-> Len(res)]

\* The batch of a window:  runs.slice(i, i + PARALLEL_LIMIT)
BatchOneMore(i) == {k \in 1..NumRuns : i <= k /\ k <= i + PARALLEL_LIMIT}

Batch(i) == {k \in 1..NumRuns : i <= k /\ k < i + PARALLEL_LIMIT}

EvalRunInit ==
    /\ parallel \in BOOLEAN
    /\ PARALLEL_LIMIT \in 1..MaxParallelCfg
    /\ cliProvider \in {"", "openai"}
    /\ models \in ModelLists
    /\ ePc = "start"
    /\ idx = 1
    /\ slots = <<>>
    /\ results = <<>>
    /\ trace = NoTrace
    /\ traceFiles = {}
    /\ eThrown = Null
    /\ eFailedPairs = {}
    /\ eCompleted = <<>>

\* runEval up to the scheduling: the trace is created, the runs are listed.
RunEvalStart ==
    /\ ePc = "start"
    /\ trace' = CreateTrace
    /\ ePc' = IF parallel THEN "par" ELSE "seq"
    /\ UNCHANGED <<parallel, PARALLEL_LIMIT, cliProvider, models, idx, slots,
                   results, traceFiles, eThrown, eFailedPairs>>
    /\ UNCHANGED eCompleted
    /\ EvalRunFrame

\* Sequential branch: the provider of the next pair is resolved and its
\* execution starts; an exception of the resolution leaves runEval.
SeqStart ==
    /\ ePc = "seq"
    /\ idx <= NumRuns
    /\ idx \notin DOMAIN slots
    /\ \E available \in {"ollama", ""} :
        LET p == ResolveProvider(cliProvider, models[RunAt(idx).model], available) IN
        IF p.ok
        THEN /\ slots' = (idx :> [state |-> "running", provider |-> p.name])
             /\ UNCHANGED <<ePc, eThrown, eFailedPairs>>
        ELSE /\ ePc' = "thrown"
             /\ eThrown' = p.error
             /\ eFailedPairs' = eFailedPairs \cup {idx}
             /\ UNCHANGED slots
    /\ UNCHANGED <<parallel, PARALLEL_LIMIT, cliProvider, models, idx, results,
                   trace, traceFiles>>
    /\ UNCHANGED eCompleted
    /\ EvalRunFrame

\* Sequential branch: runTestCaseWithRetry returned; the result is pushed
\* and appended to the trace.
SeqFinish ==
    /\ ePc = "seq"
    /\ idx \in DOMAIN slots
    /\ \E record \in RunResults(MAX_RETRIES) :
        LET result == ResultOf(idx, slots[idx].provider, record) IN
        /\ results' = Append(results, result)
        /\ trace' = AddTraceResult(trace, result)
    /\ slots' = <<>>
    /\ idx' = idx + 1
    /\ eCompleted' = Append(eCompleted, idx)
    /\ UNCHANGED <<parallel, PARALLEL_LIMIT, cliProvider, models, ePc,
                   traceFiles, eThrown, eFailedPairs>>
    /\ EvalRunFrame

\* Parallel branch: batch.map starts every execution of the window.  A
\* getProvider call that throws rejects its promise at once; a default
\* provider is awaited first.
BatchStart ==
    /\ ePc = "par"
    /\ idx <= NumRuns
    /\ slots = <<>>
    /\ slots' = [k \in Batch(idx) |->
            IF cliProvider = "" /\ models[RunAt(k).model] = ""
            THEN [state |-> "resolving", provider |-> ""]
            ELSE LET p == ResolveProvider(cliProvider, models[RunAt(k).model], "") IN
                 IF p.ok THEN [state |-> "running", provider |-> p.name]
                 ELSE [state |-> "rejected", error |-> p.error]]
    /\ eFailedPairs' = eFailedPairs \cup
            {k \in Batch(idx) : slots'[k].state = "rejected"}
    /\ UNCHANGED <<parallel, PARALLEL_LIMIT, cliProvider, models, ePc, idx,
                   results, trace, traceFiles, eThrown>>
    /\ UNCHANGED eCompleted
    /\ EvalRunFrame

\* Parallel branch: getDefaultProvider() of one execution settles.
BatchResolve ==
    /\ ePc = "par"
    /\ \E k \in DOMAIN slots :
        /\ slots[k].state = "resolving"
        /\ \E available \in {"ollama", ""} :
            LET p == GetDefaultProvider(available) IN
            IF p.ok
            THEN /\ slots' = [slots EXCEPT ![k] = [state |-> "running", provider |-> p.name]]
                 /\ UNCHANGED eFailedPairs
            ELSE /\ slots' = [slots EXCEPT ![k] = [state |-> "rejected", error |-> p.error]]
                 /\ eFailedPairs' = eFailedPairs \cup {k}
    /\ UNCHANGED <<parallel, PARALLEL_LIMIT, cliProvider, models, ePc, idx,
                   results, trace, traceFiles, eThrown>>
    /\ UNCHANGED eCompleted
    /\ EvalRunFrame

\* Parallel branch: runTestCaseWithRetry of one execution returns.
BatchFinish ==
    /\ ePc = "par"
    /\ \E k \in DOMAIN slots :
        /\ slots[k].state = "running"
        /\ \E record \in RunResults(MAX_RETRIES) :
            slots' = [slots EXCEPT ![k] =
                [state |-> "done", result |-> ResultOf(k, slots[k].provider, record)]]
        /\ eCompleted' = Append(eCompleted, k)
    /\ UNCHANGED <<parallel, PARALLEL_LIMIT, cliProvider, models, ePc, idx,
                   results, trace, traceFiles, eThrown, eFailedPairs>>
    /\ EvalRunFrame

\* The results of a fulfilled window, in the order of the batch.
RECURSIVE BatchResults(_, _)
BatchResults(from, to) ==
    IF from > to THEN <<>>
    ELSE <<slots[from].result>> \o BatchResults(from + 1, to)

RECURSIVE AddAll(_, _)
AddAll(t, res) ==
    IF res = <<>> THEN t ELSE AddAll(AddTraceResult(t, Head(res)), Tail(res))

\* Parallel branch: Promise.all fulfilled; the loop over batchResults.
BatchJoin ==
    /\ ePc = "par"
    /\ slots # <<>>
    /\ \A k \in DOMAIN slots : slots[k].state = "done"
    /\ LET last == IF idx + PARALLEL_LIMIT - 1 < NumRuns
                   THEN idx + PARALLEL_LIMIT - 1 ELSE NumRuns
           batchResults == BatchResults(idx, last) IN
        /\ results' = results \o batchResults
        /\ trace' = AddAll(trace, batchResults)
    /\ slots' = <<>>
    /\ idx' = idx + PARALLEL_LIMIT
    /\ UNCHANGED <<parallel, PARALLEL_LIMIT, cliProvider, models, ePc,
                   traceFiles, eThrown, eFailedPairs>>
    /\ UNCHANGED eCompleted
    /\ EvalRunFrame

\* Parallel branch: Promise.all rejected with the error of a rejected
\* execution; the await throws out of runEval.
BatchReject ==
    /\ ePc = "par"
    /\ \E k \in DOMAIN slots :
        /\ slots[k].state = "rejected"
        /\ eThrown' = slots[k].error
    /\ ePc' = "thrown"
    /\ UNCHANGED <<parallel, PARALLEL_LIMIT, cliProvider, models, idx, slots,
                   results, trace, traceFiles, eFailedPairs>>
    /\ UNCHANGED eCompleted
    /\ EvalRunFrame

\* After the scheduling: the summary, saveTrace and the return.  A failed
\* writeFileSync throws out of saveTrace and out of runEval.
SaveTrace ==
    /\ ePc \in {"seq", "par"}
    /\ idx > NumRuns
    /\ trace' = SealTrace(trace, Summary(results))
    /\ \E written \in BOOLEAN :
        IF written
        THEN /\ traceFiles' = traceFiles \cup {trace'}
             /\ ePc' = "done"
             /\ UNCHANGED eThrown
        ELSE /\ ePc' = "thrown"
             /\ eThrown' = ErrTraceWrite
             /\ UNCHANGED traceFiles
    /\ UNCHANGED <<parallel, PARALLEL_LIMIT, cliProvider, models, idx, slots,
                   results, eFailedPairs>>
    /\ UNCHANGED eCompleted
    /\ EvalRunFrame

EvalRunNext ==
    \/ RunEvalStart
    \/ SeqStart
    \/ SeqFinish
    \/ BatchStart
    \/ BatchResolve
    \/ BatchFinish
    \/ BatchJoin
    \/ BatchReject
    \/ SaveTrace

(***************************************************************************)
(* Claims about runEval                                                    *)
(***************************************************************************)

\* C4: a pair whose provider cannot be resolved (an unknown provider name,
\* no default provider available) gets a failing record of its own and the
\* run still ends with every pair recorded, a sealed trace and a summary.
C4_PairFailureDoesNotAbort ==
    (eFailedPairs # {} /\ ePc \in {"done", "thrown"}) =>
        /\ ePc = "done"
        /\ trace.sealed
        /\ Len(results) = NumRuns
        /\ \A k \in eFailedPairs : ~results[k].success

\* C12: a trace file that cannot be written does not abort the run: runEval
\* still returns the full result set and the trace id.
C12_TraceWriteFailureSwallowed ==
    (trace.sealed /\ trace \notin traceFiles) =>
        /\ ePc = "done"
        /\ Len(results) = NumRuns

\* Executions of the current window that have started and not completed.
InFlight == {k \in DOMAIN slots : slots[k].state \in {"resolving", "running"}}

\* C13: in parallel mode at most PARALLEL_LIMIT executions are in flight,
\* all of them of the current window, and a window has executions in flight
\* only when every execution of the windows before it has completed and is
\* recorded.
C13_WindowBound ==
    parallel =>
        /\ Cardinality(InFlight) <= PARALLEL_LIMIT
        /\ \A k \in DOMAIN slots : idx <= k /\ k < idx + PARALLEL_LIMIT
        /\ InFlight # {} => Len(results) = idx - 1

\* The second window is in flight, full.
C13_Witness ==
    /\ parallel
    /\ PARALLEL_LIMIT = 2
    /\ idx = 3
    /\ InFlight = {3, 4}
    /\ Len(results) = 2

\* C14: when runEval finishes, the result list and the trace hold one record
\* for each pair of test cases x models, in input order: test-case-major,
\* then model.
C14_OneRecordPerPair ==
    ePc = "done" =>
        /\ Len(results) = NumTestCases * Len(models)
        /\ Len(trace.results) = NumTestCases * Len(models)
        /\ \A k \in 1..Len(results) :
            /\ results[k].testCase = ((k - 1) \div Len(models)) + 1
            /\ results[k].model = ((k - 1) % Len(models)) + 1
            /\ trace.results[k].testCase = results[k].testCase
            /\ trace.results[k].model = results[k].model

\* A sequential run over four pairs has finished.
C14_Witness ==
    /\ ePc = "done"
    /\ ~parallel
    /\ Len(models) = 2
    /\ Len(results) = NumRuns
    /\ results[2].testCase = 1 /\ results[2].model = 2
    /\ results[3].testCase = 2 /\ results[3].model = 1

\* Position of a run index in the completion order.
CompletedAt(k) == CHOOSE i \in 1..Len(eCompleted) : eCompleted[i] = k

\* C15: the records of the trace are in completion order: of two records the
\* one whose execution completed earlier comes first, also for two
\* executions of one window.
C15_TraceInCompletionOrder ==
    \A i, j \in 1..Len(trace.results) :
        i < j => CompletedAt(i) < CompletedAt(j)

IsPrefix(p, q) == Len(p) <= Len(q) /\ SubSeq(q, 1, Len(p)) = p

C17_TraceKeepsRetriesAndCacheFlag ==
    \A i \in 1..Len(trace.results) :
        /\ "retries" \in DOMAIN trace.results[i]
        /\ "fromCache" \in DOMAIN trace.results[i]
        /\ trace.results[i].retries = results[i].retries
        /\ trace.results[i].fromCache = results[i].fromCache

IsNullPass(r) == r.pass = "null"

\* C30: the summary sealed into the trace accounts for every record:
\* total is the number of records, passed + failed + the records whose pass
\* is null make up the total, and errors <= failed.
C30_SummaryAccountsForEveryRecord ==
    trace.sealed =>
        /\ trace.summary.total = Len(results)
        /\ trace.summary.passed + trace.summary.failed
               + Count(results, IsNullPass) = trace.summary.total
        /\ trace.summary.errors <= trace.summary.failed

\* The parts of C30 that do hold: total counts the records and every
\* record without success has pass = false.
C30_TotalAndErrors ==
    trace.sealed =>
        /\ trace.summary.total = Len(results)
        /\ trace.summary.errors <= trace.summary.failed
        /\ \A i \in 1..Len(results) :
              ~results[i].success => results[i].pass = "false"

(***************************************************************************)
(* Evaluators.  Texts are sequences of words; a score is a percentage, in  *)
(* a singleton, or Undefined for null.                                     *)
(***************************************************************************)

The(S) == CHOOSE x \in S : TRUE

\* toLowerCase, on the words of the model.
LowerWord(w) ==
    CASE w = "Paris" -> "paris"
      [] w = "Tokyo" -> "tokyo"
      [] w = "TOOL:" -> "tool:"
      [] w = "SCORE:" -> "score:"
      [] w = "PASS:" -> "pass:"
      [] w = "Python" -> "python"
      [] w = "I" -> "i"
      [] w = "<THINK>" -> "<think>"
      [] OTHER -> w

Lower(text) == [i \in DOMAIN text |-> LowerWord(text[i])]

\* Index of the first occurrence of word w in text at or after from; 0 if none.
IndexOf(text, w, from) ==
    IF \E i \in from..Len(text) : LowerWord(text[i]) = w
    THEN CHOOSE i \in from..Len(text) :
            /\ LowerWord(text[i]) = w
            /\ \A j \in from..(i - 1) : LowerWord(text[j]) # w
    ELSE 0

\* replace(/<open>[\s\S]*?<close>/gi, ''): every span from an opening tag to
\* the nearest closing tag after it.
RECURSIVE RemovePaired(_, _, _)
RemovePaired(text, open, close) ==
    LET i == IndexOf(text, open, 1)
        j == IF i = 0 THEN 0 ELSE IndexOf(text, close, i + 1) IN
    IF i = 0 \/ j = 0 THEN text
    ELSE SubSeq(text, 1, i - 1) \o RemovePaired(SubSeq(text, j + 1, Len(text)), open, close)

\* replace(/<open>[\s\S]*$/gi, ''): from the first opening tag to the end.
RemoveUnclosed(text, open) ==
    LET i == IndexOf(text, open, 1) IN
    IF i = 0 THEN text ELSE SubSeq(text, 1, i - 1)

\* stripThinkingTags(response); trim() changes nothing between words.
StripNothing(response) == response

StripThinkingTags(response) ==
    LET a == RemovePaired(response, "<think>", "</think>")
        b == RemovePaired(a, "<thinking>", "</thinking>")
        c == RemoveUnclosed(b, "<think>") IN
    RemoveUnclosed(c, "<thinking>")

Verdict(pass, score, evalType) ==
    [kind |-> "verdict", pass |-> pass, score |-> score, evalType |-> evalType]

Thrown(error) == [kind |-> "throw", error |-> error]

Bool(b) == IF b THEN "true" ELSE "false"

ErrTypeError == <<"Cannot", "read", "properties", "of", "undefined">>

\* A value of the expected field: the text toString() gives, and whether the
\* value is falsy.
Text(words) == [falsy |-> FALSE, text |-> words]

\* The number 0.
Zero == [falsy |-> TRUE, text |-> <<"0">>]

\* The field as a condition:  if (testCase.expected)
Truthy(field) == field # Undefined /\ ~The(field).falsy

\* exactMatch
ExactMatch(tc, response) ==
    LET expected == IF Truthy(tc.expected) THEN Lower(The(tc.expected).text) ELSE <<>>
        pass == Lower(response) = expected IN
    Verdict(Bool(pass), {IF pass THEN 100 ELSE 0}, "exact_match")

\* containsMatch: e.toString() of an undefined expectation throws.
ContainsMatch(tc, response) ==
    IF tc.expected_contains = Undefined /\ tc.expected = Undefined
    THEN Thrown(ErrTypeError)
    ELSE LET expectedList == IF tc.expected_contains # Undefined
                             THEN The(tc.expected_contains)
                             ELSE <<The(tc.expected).text>>
             matches == {i \in 1..Len(expectedList) :
                            Includes(Lower(response), Lower(expectedList[i]))}
             n == Cardinality(matches) IN
         Verdict(Bool(n = Len(expectedList)),
                 {IF Len(expectedList) > 0 THEN (n * 100) \div Len(expectedList) ELSE 0},
                 "contains")

\* regexMatch: a pattern is [valid, words]; new RegExp of an invalid one
\* throws inside the try.  An undefined pattern matches every text.
RegexMatch(tc, response) ==
    LET pattern == IF tc.expected_regex # Undefined THEN The(tc.expected_regex)
                   ELSE IF tc.expected # Undefined
                   THEN [valid |-> TRUE, words |-> The(tc.expected).text]
                   ELSE [valid |-> TRUE, words |-> <<>>] IN
    IF ~pattern.valid THEN Verdict("false", {0}, "regex")
    ELSE LET pass == Includes(Lower(response), Lower(pattern.words)) IN
         Verdict(Bool(pass), {IF pass THEN 100 ELSE 0}, "regex")

\* The call syntaxes of toolCallMatch:  kw name ( args )  for the two
\* keywords, and  "tool": name ... "args": [ args ].
CallSyntaxes ==
    << [kw |-> "tool:", open |-> "(", close |-> ")"],
       [kw |-> "tool_call:", open |-> "(", close |-> ")"],
       [kw |-> "\"tool\":", open |-> "[", close |-> "]"] >>

\* The match of one syntax in a text: [tool, args], or Undefined.
MatchCall(text, syn) ==
    LET i == IndexOf(text, syn.kw, 1)
        o == IF i = 0 \/ i + 1 > Len(text) THEN 0 ELSE IndexOf(text, syn.open, i + 2)
        c == IF o = 0 THEN 0 ELSE IndexOf(text, syn.close, o + 1) IN
    IF c = 0 \/ (syn.open = "(" /\ o # i + 2) THEN Undefined
    ELSE {[tool |-> LowerWord(text[i + 1]), args |-> SubSeq(text, o + 1, c - 1)]}

\* The first syntax that matches.
ParseToolCall(text) ==
    IF \E k \in 1..Len(CallSyntaxes) : MatchCall(text, CallSyntaxes[k]) # Undefined
    THEN MatchCall(text, CallSyntaxes[
            CHOOSE k \in 1..Len(CallSyntaxes) :
                /\ MatchCall(text, CallSyntaxes[k]) # Undefined
                /\ \A m \in 1..(k - 1) : MatchCall(text, CallSyntaxes[m]) = Undefined])
    ELSE IF Includes(Lower(text), <<"tool:", "none">>) \/ Includes(Lower(text), <<"no", "tool">>)
    THEN {[tool |-> "none", args |-> <<>>]}
    ELSE Undefined

\* toolCallMatch: expectedTool.toLowerCase() of an undefined expectation throws.
ToolCallMatch(tc, response) ==
    IF tc.expected_tool = Undefined THEN Thrown(ErrTypeError)
    ELSE LET parsed == ParseToolCall(response)
             expectedArgs == tc.expected_args
             toolMatch == parsed # Undefined
                            /\ The(parsed).tool = LowerWord(The(tc.expected_tool))
             parsedArgs == IF parsed = Undefined THEN <<>> ELSE The(parsed).args
             argsMatch == \A a \in 1..Len(expectedArgs) :
                            \E pa \in 1..Len(parsedArgs) :
                                LowerWord(parsedArgs[pa]) = LowerWord(expectedArgs[a]) IN
         Verdict(Bool(toolMatch /\ argsMatch),
                 {(IF toolMatch THEN 50 ELSE 0) + (IF argsMatch THEN 50 ELSE 0)},
                 "tool_call")

\* JSON.parse of the words that are JSON literals: the object as a function
\* from keys to values, or Undefined for a SyntaxError.
JsonParse(w) ==
    CASE w = "{\"status\":\"ok\",\"x\":1}" -> {[status |-> "ok", x |-> "1"]}
      [] w = "{\"x\":2}" -> {[x |-> "2"]}
      [] OTHER -> Undefined

\* A word the literal pattern  /\{[\s\S]*\}|\[[\s\S]*\]/  matches.
JsonLiterals == {"{\"status\":\"ok\",\"x\":1}", "{\"x\":2}", "{status:}"}

\* jsonMatch: every failure after the extraction is caught.
JsonMatch(tc, response) ==
    IF \A i \in 1..Len(response) : response[i] \notin JsonLiterals
    THEN Verdict("false", {0}, "json_match")
    ELSE LET lit == response[CHOOSE i \in 1..Len(response) :
                        /\ response[i] \in JsonLiterals
                        /\ \A j \in 1..(i - 1) : response[j] \notin JsonLiterals]
             actual == JsonParse(lit) IN
         IF actual = Undefined \/ tc.expected_json = Undefined
         THEN Verdict("false", {0}, "json_match")
         ELSE LET expected == The(tc.expected_json)
                  obj == The(actual)
                  matched == {k \in DOMAIN expected :
                                IF expected[k] = "*" THEN k \in DOMAIN obj
                                ELSE k \in DOMAIN obj /\ obj[k] = expected[k]}
                  n == Cardinality(DOMAIN expected) IN
              Verdict(Bool(Cardinality(matched) = n),
                      {IF n > 0 THEN (Cardinality(matched) * 100) \div n ELSE 100},
                      "json_match")

\* parseInt of a word of digits (\d+), for the words of the model.
ParseInt(w) ==
    CASE w = "85" -> 85
      [] w = "40" -> 40
      [] w = "150" -> 150
      [] OTHER -> 0

Digits == {"85", "40", "150"}

\* llmJudge.  The judge provider is resolved before the try; the reply is
\* sanitized and parsed inside it.
LlmJudge(tc, response, env) ==
    IF env.judge = "none" THEN Thrown(ErrNoJudge)
    ELSE IF env.judgeReply = Undefined THEN Verdict("false", {0}, "llm_judge")
    ELSE LET judgeResponse == StripThinkingTags(The(env.judgeReply))
             s == IndexOf(judgeResponse, "score:", 1)
             p == IndexOf(judgeResponse, "pass:", 1)
             scoreMatch == s # 0 /\ s < Len(judgeResponse) /\ judgeResponse[s + 1] \in Digits
             passMatch == p # 0 /\ p < Len(judgeResponse)
                            /\ judgeResponse[p + 1] \in {"YES", "NO"}
             score == IF scoreMatch THEN ParseInt(judgeResponse[s + 1]) ELSE 50
             pass == IF passMatch THEN judgeResponse[p + 1] = "YES" ELSE score >= 70 IN
         Verdict(Bool(pass), {score}, "llm_judge")

\* semanticSimilarityEval: env.similarity is the cosine similarity as a
\* percentage, Undefined when the embeddings call throws.
SemanticSimilarityEval(tc, response, env) ==
    IF ~Truthy(tc.expected) THEN Verdict("null", Undefined, "semantic_similarity")
    ELSE IF env.similarity = Undefined THEN Verdict("null", Undefined, "semantic_similarity")
    ELSE Verdict(Bool(The(env.similarity) >= 70), env.similarity, "semantic_similarity")

\* checkSafety(text): the numbers of high and of medium severity issues,
\* for one pattern of each list.
CheckSafety(text) ==
    LET high == IF Includes(Lower(text), <<"shoot", "them">>) THEN 1 ELSE 0
        medium == (IF Includes(Lower(text), <<"jailbreak">>) THEN 1 ELSE 0) IN
    [high |-> high, medium |-> medium,
     score |-> IF 100 - 50 * high - 20 * medium > 0
               THEN 100 - 50 * high - 20 * medium ELSE 0]

\* safetyEval
SafetyEval(tc, response) ==
    LET inputCheck == CheckSafety(tc.prompt)
        outputCheck == CheckSafety(response) IN
    Verdict(Bool(inputCheck.high + outputCheck.high = 0),
            {(inputCheck.score + outputCheck.score) \div 2}, "safety")

\* customEval
CustomEval(tc, response) == Verdict("true", {100}, "custom")

\* detectEvalType
DetectEvalType(tc) ==
    IF tc.expected_tool # Undefined THEN "tool_call"
    ELSE IF tc.expected_json # Undefined THEN "json_match"
    ELSE IF tc.expected_regex # Undefined THEN "regex"
    ELSE IF tc.expected_contains # Undefined THEN "contains"
    ELSE IF tc.expected_semantic THEN "semantic_similarity"
    ELSE IF tc.safety_check THEN "safety"
    ELSE IF Truthy(tc.expected) THEN "exact_match"
    ELSE IF tc.criteria THEN "llm_judge"
    ELSE "existence"

\* The default branch of the switch.
DefaultEval(tc, cleaned, env) ==
    IF ~Truthy(tc.expected) /\ ~tc.criteria
    THEN Verdict(IF cleaned = <<>> THEN "" ELSE "true",
                 {IF cleaned = <<>> THEN 0 ELSE 100}, "existence")
    ELSE IF tc.criteria THEN LlmJudge(tc, cleaned, env)
    ELSE ExactMatch(tc, cleaned)

\* evaluate
Evaluate(tc, response, env) ==
    LET cleaned == StripThinkingTags(response)
        evalType == IF tc.eval_type # "" THEN tc.eval_type ELSE DetectEvalType(tc) IN
    CASE evalType = "exact_match" -> ExactMatch(tc, cleaned)
      [] evalType = "contains" -> ContainsMatch(tc, cleaned)
      [] evalType = "regex" -> RegexMatch(tc, cleaned)
      [] evalType = "tool_call" -> ToolCallMatch(tc, cleaned)
      [] evalType = "json_match" -> JsonMatch(tc, cleaned)
      [] evalType = "llm_judge" -> LlmJudge(tc, cleaned, env)
      [] evalType = "semantic_similarity" -> SemanticSimilarityEval(tc, cleaned, env)
      [] evalType = "safety" -> SafetyEval(tc, cleaned)
      [] evalType = "custom" -> CustomEval(tc, cleaned)
      [] OTHER -> DefaultEval(tc, cleaned, env)

\* The inputs of the model.
EvalTypes ==
    {"", "exact_match", "contains", "regex", "tool_call", "json_match",
     "llm_judge", "semantic_similarity", "safety", "custom", "fuzzy"}

Responses ==
    { <<"Paris">>,
      <<"<think>", "hmm", "</think>", "I", "love", "Python">>,
      <<"<think>", "only", "thoughts">>,
      <<"TOOL:", "get_weather", "(", "Tokyo", ")">>,
      <<"answer", "{\"status\":\"ok\",\"x\":1}">> }

JudgeReplies ==
    { {<<"SCORE:", "85", "PASS:", "YES", "REASON:", "fine">>},
      {<<"<think>", "SCORE:", "40", "</think>", "SCORE:", "150">>},
      {<<"cannot", "say">>},
      Undefined }

TestCases ==
    [ prompt : {<<"What", "is", "the", "capital?">>},
      eval_type : EvalTypes,
      expected : {Undefined, {Text(<<"paris">>)}, {Zero}},
      expected_contains : {Undefined, {<< <<"python">>, <<"javascript">> >>}},
      expected_regex : {Undefined, {[valid |-> FALSE, words |-> <<"(">>]}},
      expected_tool : {Undefined, {"get_weather"}},
      expected_args : {<<"Tokyo">>},
      expected_json : {Undefined, {[status |-> "*"]}},
      expected_semantic : BOOLEAN,
      safety_check : BOOLEAN,
      criteria : BOOLEAN ]

Envs ==
    [ judge : {"given", "default", "none"},
      judgeReply : JudgeReplies,
      similarity : {Undefined, {83}} ]

NoVerdict == [kind |-> "none"]

EvaluateInit ==
    /\ vCase \in TestCases
    /\ vResponse \in Responses
    /\ vEnv \in Envs
    /\ vPc = "call"
    /\ vOut = NoVerdict

\* One call of evaluate to its end.
EvaluateCall ==
    /\ vPc = "call"
    /\ vOut' = Evaluate(vCase, vResponse, vEnv)
    /\ vPc' = "returned"
    /\ UNCHANGED <<vCase, vResponse, vEnv>>
    /\ EvaluateFrame

EvaluateNext == EvaluateCall

(***************************************************************************)
(* Claims about evaluate                                                   *)
(***************************************************************************)

\* C5: evaluate never throws: whatever the variant, the test case and the
\* response, what it returns is a verdict.
C5_EvaluateNeverThrows ==
    vPc = "returned" => vOut.kind = "verdict"

\* The evaluator the selection rule names for a test case: the explicit
\* eval_type, or else the one of the first populated field.
SelectedByRule(tc) ==
    IF tc.eval_type # "" THEN tc.eval_type
    ELSE IF tc.expected_tool # Undefined THEN "tool_call"
    ELSE IF tc.expected_json # Undefined THEN "json_match"
    ELSE IF tc.expected_regex # Undefined THEN "regex"
    ELSE IF tc.expected_contains # Undefined THEN "contains"
    ELSE IF tc.expected_semantic THEN "semantic_similarity"
    ELSE IF tc.safety_check THEN "safety"
    ELSE IF tc.expected # Undefined THEN "exact_match"
    ELSE IF tc.criteria THEN "llm_judge"
    ELSE "existence"

\* C19: evaluate runs the evaluator of the explicit eval_type, or else of the
\* first populated field in the order expected_tool, expected_json,
\* expected_regex, expected_contains, expected_semantic, safety_check,
\* expected, criteria, and the existence check when none is populated.
C19_SelectionRule ==
    (vPc = "returned" /\ vOut.kind = "verdict" /\ vCase.eval_type # "fuzzy") =>
        vOut.evalType = SelectedByRule(vCase)

\* C20: the score of a verdict is null or a number in [0,1] (a percentage
\* in 0..100 here), whatever the evaluator, the response and the reply of
\* the judge.
C20_ScoreInUnitInterval ==
    (vPc = "returned" /\ vOut.kind = "verdict") =>
        \/ vOut.score = Undefined
        \/ The(vOut.score) \in 0..100

(***************************************************************************)
(* stripThinkingTags on texts made of tags and words                       *)
(***************************************************************************)

\* The longest response text.
MaxTextLen == 4

OpenTags == {"<think>", "<thinking>"}

\* The closing tag of an opening tag.
CloseOf(open) == IF open = "<think>" THEN "</think>" ELSE "</thinking>"

TagWords == {"<think>", "</think>", "<thinking>", "</thinking>", "<THINK>", "Paris"}

TaggedTexts == UNION {[1..n -> TagWords] : n \in 0..MaxTextLen}

\* One test case for each value of eval_type, with the expected text only.
TaggedCases ==
    {tc \in TestCases :
        /\ tc.expected = {Text(<<"paris">>)}
        /\ tc.expected_contains = Undefined /\ tc.expected_regex = Undefined
        /\ tc.expected_tool = Undefined /\ tc.expected_json = Undefined
        /\ ~tc.expected_semantic /\ ~tc.safety_check /\ ~tc.criteria}

\* The judge is given and its reply has a span of its own.
TaggedEnvs ==
    {env \in Envs :
        /\ env.judge = "given" /\ env.similarity # Undefined
        /\ env.judgeReply # Undefined
        /\ \E i \in 1..Len(The(env.judgeReply)) : The(env.judgeReply)[i] \in OpenTags}

SanitizeInit ==
    /\ sText \in TaggedTexts
    /\ sCase \in TaggedCases
    /\ sEnv \in TaggedEnvs
    /\ sPc = "call"
    /\ sClean = <<>>
    /\ sOut = NoVerdict

\* One call of evaluate on the text, to its end.
SanitizeCall ==
    /\ sPc = "call"
    /\ sClean' = StripThinkingTags(sText)
    /\ sOut' = Evaluate(sCase, sText, sEnv)
    /\ sPc' = "returned"
    /\ UNCHANGED <<sText, sCase, sEnv>>
    /\ SanitizeFrame

SanitizeNext == SanitizeCall

\* The text without its spans, read from left to right: a span starts at
\* the first opening tag and ends at the nearest closing tag of its kind,
\* or at the end of the text when there is none.
RECURSIVE WithoutSpans(_)
WithoutSpans(text) ==
    IF \A i \in 1..Len(text) : LowerWord(text[i]) \notin OpenTags THEN text
    ELSE LET i == CHOOSE k \in 1..Len(text) :
                     /\ LowerWord(text[k]) \in OpenTags
                     /\ \A j \in 1..(k - 1) : LowerWord(text[j]) \notin OpenTags
             j == IndexOf(text, CloseOf(LowerWord(text[i])), i + 1)
         IN IF j = 0 THEN SubSeq(text, 1, i - 1)
            ELSE SubSeq(text, 1, i - 1) \o WithoutSpans(SubSeq(text, j + 1, Len(text)))

\* A <think> span that starts inside a <thinking> span and ends after it:
\* the two spans overlap without one holding the other.
Crossing(text) ==
    \E a, b, c, d \in 1..Len(text) :
        /\ a < b /\ b < c /\ c < d
        /\ LowerWord(text[a]) = "<thinking>" /\ LowerWord(text[b]) = "<think>"
        /\ LowerWord(text[c]) = "</thinking>" /\ LowerWord(text[d]) = "</think>"

MinuteTicks == 12

\* options.requestsPerMinute and options.tokensPerMinute of the model.
requestsPerMinute == 2
tokensPerMinute == 3

\* The estimatedTokens the callers pass.
EstimatedTokens == 1

\* The largest total_tokens a call reports.
MaxTokenCount == 2

\* result.usage.total_tokens of a returned call: Undefined when the result has
\* no usage, 0 when the provider was given no count.
TokenCounts == {Undefined, {0}, {MaxTokenCount}}

\* execute calls the callers start in all.
MaxExecuteCalls == 3

Callers == {"a", "b"}

Min(x, y) == IF x <= y THEN x ELSE y

\* refill(): the two levels after it, for an elapsed time.
RefillRequests(level, elapsed) ==
    Min(requestsPerMinute * MinuteTicks, level + requestsPerMinute * elapsed)

RefillTokens(level, elapsed) ==
    Min(tokensPerMinute * MinuteTicks, level + tokensPerMinute * elapsed)

\* canRequest(estimatedTokens) on refilled levels.
CanRequestStrict(requests, tokens, estimatedTokens) ==
    requests > MinuteTicks /\ tokens >= estimatedTokens * MinuteTicks

CanRequest(requests, tokens, estimatedTokens) ==
    requests >= MinuteTicks /\ tokens >= estimatedTokens * MinuteTicks

\* const actualTokens = result?.usage?.total_tokens || estimatedTokens
ActualTokensEstimated(count, estimatedTokens) == estimatedTokens

ActualTokens(count, estimatedTokens) ==
    IF count = Undefined \/ The(count) = 0 THEN estimatedTokens ELSE The(count)

\* Time stops counting once both buckets refill to their ceilings whatever
\* the calls in flight debit before the next refill: later refills are the
\* same.
AgeSaturated(age) ==
    LET inFlight == Cardinality({c \in Callers : lPc[c] = "call"})
    IN /\ requestTokens + requestsPerMinute * age
            >= (requestsPerMinute + inFlight) * MinuteTicks
       /\ tokenBucket + tokensPerMinute * age
            >= (tokensPerMinute + inFlight * MaxTokenCount) * MinuteTicks

LimiterInit ==
    /\ requestTokens = requestsPerMinute * MinuteTicks
    /\ tokenBucket = tokensPerMinute * MinuteTicks
    /\ lAge = 0
    /\ lPc = [c \in Callers |-> "idle"]
    /\ lTimer = [c \in Callers |-> 0]
    /\ lCalls = 0
    /\ lUsage = [c \in Callers |-> Undefined]

\* Wall-clock time advances by one tick.
Tick ==
    /\ lAge' = IF AgeSaturated(lAge) THEN lAge ELSE lAge + 1
    /\ lTimer' = [c \in Callers |-> IF lTimer[c] > 0 THEN lTimer[c] - 1 ELSE 0]
    /\ \/ lAge' # lAge
       \/ lTimer' # lTimer
    /\ UNCHANGED <<requestTokens, tokenBucket, lPc, lCalls>>
    /\ UNCHANGED lUsage
    /\ LimiterFrame

\* execute(fn, estimatedTokens) is called.
Execute(c) ==
    /\ lPc[c] \in {"idle", "returned", "thrown"}
    /\ lCalls < MaxExecuteCalls
    /\ lCalls' = lCalls + 1
    /\ lPc' = [lPc EXCEPT ![c] = "wait"]
    /\ UNCHANGED <<requestTokens, tokenBucket, lAge, lTimer>>
    /\ lUsage' = [lUsage EXCEPT ![c] = Undefined]
    /\ LimiterFrame

\* One iteration of waitForCapacity: canRequest refills, then either the
\* loop ends and fn is invoked, or the caller sleeps one polling interval.
WaitForCapacity(c) ==
    /\ lPc[c] = "wait"
    /\ requestTokens' = RefillRequests(requestTokens, lAge)
    /\ tokenBucket' = RefillTokens(tokenBucket, lAge)
    /\ lAge' = 0
    /\ IF CanRequest(requestTokens', tokenBucket', EstimatedTokens)
       THEN /\ lPc' = [lPc EXCEPT ![c] = "call"]
            /\ UNCHANGED lTimer
       ELSE /\ lPc' = [lPc EXCEPT ![c] = "sleep"]
            /\ lTimer' = [lTimer EXCEPT ![c] = 1]
    /\ UNCHANGED lCalls
    /\ UNCHANGED lUsage
    /\ LimiterFrame

\* The polling sleep is over.
WakeUp(c) ==
    /\ lPc[c] \in {"sleep", "backoff"}
    /\ lTimer[c] = 0
    /\ lPc' = [lPc EXCEPT ![c] = "wait"]
    /\ UNCHANGED <<requestTokens, tokenBucket, lAge, lTimer, lCalls>>
    /\ UNCHANGED lUsage
    /\ LimiterFrame

\* fn returned a result: consume(actualTokens), and execute returns it.
FnReturns(c) ==
    /\ lPc[c] = "call"
    /\ \E count \in TokenCounts :
        /\ requestTokens' = requestTokens - MinuteTicks
        /\ tokenBucket' = tokenBucket - ActualTokens(count, EstimatedTokens) * MinuteTicks
        /\ lUsage' = [lUsage EXCEPT ![c] = count]
    /\ lPc' = [lPc EXCEPT ![c] = "returned"]
    /\ UNCHANGED <<lAge, lTimer, lCalls>>
    /\ LimiterFrame

\* fn threw an error with '429' or 'rate limit' in its message: execute
\* waits retryAfterMs * 2 and calls itself.
FnRateLimited(c) ==
    /\ lPc[c] = "call"
    /\ lPc' = [lPc EXCEPT ![c] = "backoff"]
    /\ lTimer' = [lTimer EXCEPT ![c] = 2]
    /\ UNCHANGED <<requestTokens, tokenBucket, lAge, lCalls>>
    /\ UNCHANGED lUsage
    /\ LimiterFrame

\* fn threw another error: execute rethrows it.
FnThrows(c) ==
    /\ lPc[c] = "call"
    /\ lPc' = [lPc EXCEPT ![c] = "thrown"]
    /\ UNCHANGED <<requestTokens, tokenBucket, lAge, lTimer, lCalls>>
    /\ UNCHANGED lUsage
    /\ LimiterFrame

LimiterNext ==
    \/ Tick
    \/ \E c \in Callers :
        \/ Execute(c)
        \/ WaitForCapacity(c)
        \/ WakeUp(c)
        \/ FnReturns(c)
        \/ FnRateLimited(c)
        \/ FnThrows(c)

\* Timers fire, continuations run, and the wrapped call always settles.
LimiterFairness ==
    /\ WF_vars(Tick)
    /\ \A c \in Callers :
        /\ WF_vars(WaitForCapacity(c))
        /\ WF_vars(WakeUp(c))
        /\ WF_vars(FnReturns(c) \/ FnRateLimited(c) \/ FnThrows(c))

(***************************************************************************)
(* Claims about the RateLimiter                                            *)
(***************************************************************************)

\* C6: every execute call ends: it returns the result or propagates the
\* error, also when the wrapped call keeps failing with a rate-limit error.
C6_ExecuteTerminates ==
    \A c \in Callers : (lPc[c] = "wait") ~> (lPc[c] \in {"returned", "thrown"})

\* C7: canRequest answers true exactly when, after the refill, the request
\* bucket holds a whole request and the token bucket the estimate; so once
\* the request bucket is used up, canRequest answers false until the time
\* the refill counts (the time since the previous refill) brings back one
\* request.
C7_CanRequestAfterRefill ==
    [][\A c \in Callers :
        (lPc[c] = "wait" /\ lPc'[c] # "wait") =>
            /\ (lPc'[c] = "call") <=>
                   /\ RefillRequests(requestTokens, lAge) >= MinuteTicks
                   /\ RefillTokens(tokenBucket, lAge) >= EstimatedTokens * MinuteTicks
            /\ (requestTokens + requestsPerMinute * lAge < MinuteTicks)
                   => lPc'[c] = "sleep"]_vars

\* A caller was refused with the request bucket used up.
C7_Witness ==
    /\ requestTokens = 0
    /\ lAge = 0
    /\ \E c \in Callers : lPc[c] = "sleep" /\ lTimer[c] = 1

\* C26: execute invokes the wrapped call only when canRequest has answered
\* true on the refilled buckets; when the call returns a result, one request
\* and the reported total_tokens are debited, the estimate when the result
\* reports no count; a call that throws debits nothing.
C26_AdmitThenDebit ==
    [][\A c \in Callers :
        /\ (lPc[c] # "call" /\ lPc'[c] = "call") =>
              /\ lPc[c] = "wait"
              /\ CanRequest(requestTokens', tokenBucket', EstimatedTokens)
              /\ requestTokens' = RefillRequests(requestTokens, lAge)
              /\ tokenBucket' = RefillTokens(tokenBucket, lAge)
        /\ (lPc[c] = "call" /\ lPc'[c] = "returned") =>
              /\ requestTokens' = requestTokens - MinuteTicks
              /\ tokenBucket' = tokenBucket - MinuteTicks *
                    (IF lUsage'[c] \in {Undefined, {0}} THEN EstimatedTokens
                     ELSE The(lUsage'[c]))
        /\ (lPc[c] = "call" /\ lPc'[c] \in {"thrown", "backoff"}) =>
              UNCHANGED <<requestTokens, tokenBucket>>]_vars

\* The first call returned a result that reports MaxTokenCount tokens: one
\* request and that many tokens are gone from the full buckets.
C26_Witness ==
    \E c \in Callers :
        /\ lPc[c] = "returned"
        /\ lUsage[c] = {MaxTokenCount}
        /\ requestTokens = (requestsPerMinute - 1) * MinuteTicks
        /\ tokenBucket = (tokensPerMinute - MaxTokenCount) * MinuteTicks

\* C27: whatever the interleaving of the execute calls, the request bucket
\* stays within 0..requestsPerMinute and the token bucket within
\* 0..tokensPerMinute.
C27_BucketsWithinBounds ==
    /\ 0 <= requestTokens /\ requestTokens <= requestsPerMinute * MinuteTicks
    /\ 0 <= tokenBucket /\ tokenBucket <= tokensPerMinute * MinuteTicks

(***************************************************************************)
(* getRateLimiter and withRateLimit: the limiters of the providers.  Every *)
(* limiter has the limits of the model.                                    *)
(***************************************************************************)

\* The provider names the calls are made for.
LimitedProviders == {"openai", "anthropic"}

\* withRateLimit calls made in all.
MaxLimitedCalls == 3

\* The clock stops here.
MaxLimiterNow == 2

\* The key of the Map for a provider name.
LimiterKeyShared(provider) == "default"

LimiterKey(provider) == provider

\* new RateLimiter(config): full buckets, lastRefill = Date.now().
NewRateLimiter(at) ==
    [requestTokens |-> requestsPerMinute * MinuteTicks,
     tokenBucket |-> tokensPerMinute * MinuteTicks,
     lastRefill |-> at]

\* refill() of a limiter at a time.
Refilled(limiter, at) ==
    [requestTokens |-> RefillRequests(limiter.requestTokens, at - limiter.lastRefill),
     tokenBucket |-> RefillTokens(limiter.tokenBucket, at - limiter.lastRefill),
     lastRefill |-> at]

\* consume(actualTokens) of a limiter.
Consumed(limiter, actualTokens) ==
    [limiter EXCEPT !.requestTokens = @ - MinuteTicks,
                    !.tokenBucket = @ - actualTokens * MinuteTicks]

RegistryInit ==
    /\ limiters = <<>>
    /\ pObjects = <<>>
    /\ pNow = 0
    /\ pPc = [c \in Callers |-> "idle"]
    /\ pProvider = [c \in Callers |-> ""]
    /\ pLimiter = [c \in Callers |-> 0]
    /\ pCalls = 0

\* Wall-clock time advances by one polling interval; the sleeps are over.
RegistryTick ==
    /\ pNow < MaxLimiterNow
    /\ pNow' = pNow + 1
    /\ pPc' = [c \in Callers |-> IF pPc[c] = "sleep" THEN "wait" ELSE pPc[c]]
    /\ UNCHANGED <<limiters, pObjects, pProvider, pLimiter, pCalls>>
    /\ RegistryFrame

\* withRateLimit(provider, fn) up to the call of execute: getRateLimiter
\* makes the limiter of the name when the Map has none.
WithRateLimit(c) ==
    /\ pPc[c] = "idle"
    /\ pCalls < MaxLimitedCalls
    /\ \E provider \in LimitedProviders :
        LET key == LimiterKey(provider)
            made == Cardinality(DOMAIN pObjects) + 1
        IN /\ IF key \in DOMAIN limiters
              THEN /\ pLimiter' = [pLimiter EXCEPT ![c] = limiters[key]]
                   /\ UNCHANGED <<limiters, pObjects>>
              ELSE /\ limiters' = [k \in DOMAIN limiters \cup {key} |->
                                      IF k = key THEN made ELSE limiters[k]]
                   /\ pObjects' = [o \in DOMAIN pObjects \cup {made} |->
                                      IF o = made THEN NewRateLimiter(pNow)
                                      ELSE pObjects[o]]
                   /\ pLimiter' = [pLimiter EXCEPT ![c] = made]
           /\ pProvider' = [pProvider EXCEPT ![c] = provider]
    /\ pPc' = [pPc EXCEPT ![c] = "wait"]
    /\ pCalls' = pCalls + 1
    /\ UNCHANGED pNow
    /\ RegistryFrame

\* One iteration of waitForCapacity on the caller's limiter.
LimiterAdmits(c) ==
    /\ pPc[c] = "wait"
    /\ LET refilled == Refilled(pObjects[pLimiter[c]], pNow)
       IN /\ pObjects' = [pObjects EXCEPT ![pLimiter[c]] = refilled]
          /\ pPc' = [pPc EXCEPT ![c] =
                IF CanRequest(refilled.requestTokens, refilled.tokenBucket,
                              EstimatedTokens)
                THEN "call" ELSE "sleep"]
    /\ UNCHANGED <<limiters, pNow, pProvider, pLimiter, pCalls>>
    /\ RegistryFrame

\* fn returned: consume on the caller's limiter, and withRateLimit returns.
LimiterDebits(c) ==
    /\ pPc[c] = "call"
    /\ \E count \in TokenCounts :
        pObjects' = [pObjects EXCEPT ![pLimiter[c]] =
                        Consumed(@, ActualTokens(count, EstimatedTokens))]
    /\ pPc' = [pPc EXCEPT ![c] = "idle"]
    /\ UNCHANGED <<limiters, pNow, pProvider, pLimiter, pCalls>>
    /\ RegistryFrame

\* fn threw an error that is not a rate-limit error: no debit.
LimitedCallThrows(c) ==
    /\ pPc[c] = "call"
    /\ pPc' = [pPc EXCEPT ![c] = "idle"]
    /\ UNCHANGED <<limiters, pObjects, pNow, pProvider, pLimiter, pCalls>>
    /\ RegistryFrame

RegistryNext ==
    \/ RegistryTick
    \/ \E c \in Callers :
        \/ WithRateLimit(c)
        \/ LimiterAdmits(c)
        \/ LimiterDebits(c)
        \/ LimitedCallThrows(c)

\* C22: limiters are one per provider name: the calls for one name get the
\* same limiter, calls for different names different limiters, and a step
\* of a call for one provider leaves the buckets of the limiters of all
\* other providers as they are.
C22_LimitersIsolated ==
    /\ [](\A c, d \in Callers :
            (pProvider[c] # "" /\ pProvider[d] # "") =>
                (pLimiter[c] = pLimiter[d] <=> pProvider[c] = pProvider[d]))
    /\ [](\A a, b \in DOMAIN limiters : limiters[a] = limiters[b] => a = b)
    /\ [][\A c \in Callers :
            pPc'[c] # pPc[c] =>
                \A q \in LimitedProviders \ {pProvider'[c]} :
                    LimiterKey(q) \in DOMAIN limiters =>
                        /\ LimiterKey(q) \in DOMAIN limiters'
                        /\ limiters'[LimiterKey(q)] = limiters[LimiterKey(q)]
                        /\ pObjects'[limiters[LimiterKey(q)]] =
                               pObjects[limiters[LimiterKey(q)]]]_vars

\* One provider's limiter has been debited down to no request left while the
\* limiter of the other provider, made at the same time, still has its
\* full buckets; two callers hold the two limiters.
C22_Witness ==
    /\ DOMAIN limiters = LimitedProviders
    /\ pObjects[limiters["openai"]].requestTokens <= 0
    /\ pObjects[limiters["anthropic"]].requestTokens = requestsPerMinute * MinuteTicks
    /\ pObjects[limiters["anthropic"]].tokenBucket = tokensPerMinute * MinuteTicks
    /\ \E c, d \in Callers :
        /\ pProvider[c] = "openai" /\ pProvider[d] = "anthropic"
        /\ pLimiter[c] # pLimiter[d]

(***************************************************************************)
(* Response cache (cache.mjs) and the part of runTestCase that uses it.    *)
(***************************************************************************)

\* process.env.CACHE_TTL_MS, in ticks.
CACHE_TTL == 1

\* The clock stops here.
MaxNow == CACHE_TTL + 1

\* The fields of runTestCase's record that the cache decides.
CacheRecord(fromCache, result) ==
    [kind |-> "record", success |-> TRUE, fromCache |-> fromCache, result |-> result]

\* The record of a cache hit:  result = cached; result.latencyMs = 0;
\* fromCache = true
HitRecordKeepingLatency(cached) == CacheRecord(TRUE, cached)

HitRecord(cached) == CacheRecord(TRUE, [cached EXCEPT !.latencyMs = 0])

\* Completion requests the executions make: provider.name, model, messages
\* and the two sampling options.
Requests ==
    [provider : {"ollama"}, model : {"llama3"},
     messages : {<<"system", "user">>, <<"user", "system">>},
     temperature : {"0.7"}, max_tokens : {"2048"}]

\* getCacheKey: the JSON text of the five fields in their fixed order.  The
\* 16 hex digits of its SHA-256 digest are represented by the text they are
\* computed from.
GetCacheKey(provider, model, messages, options) ==
    <<provider, model, messages, options.temperature, options.max_tokens>>

KeyOf(req) ==
    GetCacheKey(req.provider, req.model, req.messages,
                [temperature |-> req.temperature, max_tokens |-> req.max_tokens])

\* Results of provider.complete.
Completions == [text : {"Paris", "Tokyo"}, latencyMs : {850}]

\* JSON.stringify(data, null, 2) and JSON.parse of a cache file.
Stringify(data) == <<"{", "timestamp", data.timestamp, "response", data.response, "}">>

ParseOk(text) == Len(text) = 6 /\ text[1] = "{" /\ text[6] = "}"

Parse(text) == [timestamp |-> text[3], response |-> text[5]]

\* Date.now() - data.timestamp > ttlMs
ExpiredAtTtl(at, timestamp, ttlMs) == at - timestamp >= ttlMs

Expired(at, timestamp, ttlMs) == at - timestamp > ttlMs

\* The null that getCachedResponse returns.
NoResponse == [kind |-> "null"]

\* What a writeFileSync that fails part-way leaves in the file.
Truncated(text) == SubSeq(text, 1, 2)

ErrJson == <<"Unexpected", "end", "of", "JSON", "input">>

\* getCachedResponse(cacheKey) at a time, on the files as they are.  The
\* read and the parse are inside its try block.
GetCachedResponseUnguarded(fs, cacheKey, at) ==
    IF cacheKey \notin DOMAIN fs THEN NoResponse
    ELSE IF ~ParseOk(fs[cacheKey]) THEN Thrown(ErrJson)
    ELSE IF Expired(at, Parse(fs[cacheKey]).timestamp, CACHE_TTL) THEN NoResponse
    ELSE Parse(fs[cacheKey]).response

GetCachedResponse(fs, cacheKey, at) ==
    IF cacheKey \notin DOMAIN fs THEN NoResponse
    ELSE IF ~ParseOk(fs[cacheKey]) THEN NoResponse
    ELSE IF Expired(at, Parse(fs[cacheKey]).timestamp, CACHE_TTL) THEN NoResponse
    ELSE Parse(fs[cacheKey]).response

\* writeFileSync(cachePath, text): the files after it.
WriteFileTruncating(fs, cacheKey, text) == [k \in {cacheKey} |-> text]

WriteFileIfAbsent(fs, cacheKey, text) ==
    [k \in DOMAIN fs \cup {cacheKey} |-> IF k \in DOMAIN fs THEN fs[k] ELSE text]

WriteFile(fs, cacheKey, text) ==
    [k \in DOMAIN fs \cup {cacheKey} |-> IF k = cacheKey THEN text ELSE fs[k]]

ErrRequire == <<"require", "is", "not", "defined">>

Executions == {"e1", "e2"}

CacheInit ==
    /\ now = 0
    /\ files = <<>>
    /\ cRet = NoRecord
    /\ cReplaced = FALSE
    /\ cLast = <<>>
    /\ xPc = [e \in Executions |-> "idle"]
    /\ xReq = [e \in Executions |-> NoRecord]
    /\ xUse = [e \in Executions |-> FALSE]
    /\ xGot = [e \in Executions |-> NoResponse]
    /\ xOut = [e \in Executions |-> NoRecord]
    /\ xWrite = [e \in Executions |-> "none"]
    /\ cWarned = FALSE

\* Wall-clock time advances.
CacheTick ==
    /\ now < MaxNow
    /\ now' = now + 1
    /\ UNCHANGED <<files, cRet, cReplaced, cLast, xPc, xReq, xUse, xGot, xOut,
                   xWrite, cWarned>>
    /\ CacheFrame

\* runTestCase up to the provider call: the key, the cache check when the
\* cache is in use, and on a hit the rest of the function.
CacheCheck(e) ==
    /\ xPc[e] = "idle"
    /\ \E req \in Requests, use \in BOOLEAN :
        LET cached == IF use THEN GetCachedResponse(files, KeyOf(req), now) ELSE NoResponse
        IN /\ xReq' = [xReq EXCEPT ![e] = req]
           /\ xUse' = [xUse EXCEPT ![e] = use]
           /\ xGot' = [xGot EXCEPT ![e] = cached]
           /\ IF cached = NoResponse
              THEN /\ xPc' = [xPc EXCEPT ![e] = "calling"]
                   /\ xOut' = [xOut EXCEPT ![e] = NoRecord]
              ELSE IF cached = Thrown(ErrJson)
              THEN /\ xPc' = [xPc EXCEPT ![e] = "done"]
                   /\ xOut' = [xOut EXCEPT ![e] = RunTestCaseCaught(cached.error)]
              ELSE /\ xPc' = [xPc EXCEPT ![e] = "done"]
                   /\ xOut' = [xOut EXCEPT ![e] = HitRecord(cached)]
    /\ UNCHANGED <<now, files, cRet, cReplaced, cLast, xWrite, cWarned>>
    /\ CacheFrame

\* The provider call returned: setCachedResponse when the cache is in use,
\* whose write may fail, and the rest of the function.
CompletionReturns(e) ==
    /\ xPc[e] = "calling"
    /\ \E result \in Completions, write \in {"written", "refused", "cut"} :
        LET key == KeyOf(xReq[e])
            data == [timestamp |-> now, response |-> result]
        IN /\ IF ~xUse[e]
              THEN /\ write = "written"
                   /\ UNCHANGED <<files, cLast, cReplaced, xWrite, cWarned>>
              ELSE IF write = "written"
              THEN /\ files' = WriteFile(files, key, Stringify(data))
                   /\ cLast' = [k \in DOMAIN cLast \cup {key} |->
                                   IF k = key THEN data ELSE cLast[k]]
                   /\ cReplaced' = (key \in DOMAIN files)
                   /\ xWrite' = [xWrite EXCEPT ![e] = "written"]
                   /\ UNCHANGED cWarned
              ELSE /\ files' = IF write = "cut"
                               THEN WriteFile(files, key, Truncated(Stringify(data)))
                               ELSE files
                   /\ cLast' = IF write = "cut"
                               THEN [k \in DOMAIN cLast \ {key} |-> cLast[k]]
                               ELSE cLast
                   /\ xWrite' = [xWrite EXCEPT ![e] = "failed"]
                   /\ cWarned' = TRUE
                   /\ UNCHANGED cReplaced
           /\ xOut' = [xOut EXCEPT ![e] = CacheRecord(FALSE, result)]
    /\ xPc' = [xPc EXCEPT ![e] = "done"]
    /\ UNCHANGED <<now, cRet, xReq, xUse, xGot>>
    /\ CacheFrame

\* The provider call failed: the catch block, no cache write.
CompletionFailsWriting(e) ==
    /\ xPc[e] = "calling"
    /\ xPc' = [xPc EXCEPT ![e] = "done"]
    /\ xOut' = [xOut EXCEPT ![e] = RunTestCaseCaught(ErrServer)]
    /\ files' = IF xUse[e]
                THEN WriteFile(files, KeyOf(xReq[e]),
                               Stringify([timestamp |-> now, response |-> NoResponse]))
                ELSE files
    /\ UNCHANGED <<now, cRet, cReplaced, cLast, xReq, xUse, xGot, xWrite, cWarned>>
    /\ CacheFrame

CompletionFails(e) ==
    /\ xPc[e] = "calling"
    /\ xPc' = [xPc EXCEPT ![e] = "done"]
    /\ xOut' = [xOut EXCEPT ![e] = RunTestCaseCaught(ErrServer)]
    /\ UNCHANGED <<now, files, cRet, cReplaced, cLast, xReq, xUse, xGot, xWrite, cWarned>>
    /\ CacheFrame

\* The execution is over; the next one may start.
ExecutionEnds(e) ==
    /\ xPc[e] = "done"
    /\ xPc' = [xPc EXCEPT ![e] = "idle"]
    /\ xReq' = [xReq EXCEPT ![e] = NoRecord]
    /\ xUse' = [xUse EXCEPT ![e] = FALSE]
    /\ xGot' = [xGot EXCEPT ![e] = NoResponse]
    /\ xOut' = [xOut EXCEPT ![e] = NoRecord]
    /\ xWrite' = [xWrite EXCEPT ![e] = "none"]
    /\ UNCHANGED <<now, files, cRet, cReplaced, cLast, cWarned>>
    /\ CacheFrame

\* clearCache(): its first statement calls require, which an ES module does
\* not have.
ClearCache ==
    /\ cRet' = Thrown(ErrRequire)
    /\ cRet' # cRet
    /\ UNCHANGED <<now, files, cReplaced, cLast, xPc, xReq, xUse, xGot, xOut,
                   xWrite, cWarned>>
    /\ CacheFrame

CacheNext ==
    \/ CacheTick
    \/ ClearCache
    \/ \E e \in Executions :
        \/ CacheCheck(e)
        \/ CompletionReturns(e)
        \/ CompletionFails(e)
        \/ ExecutionEnds(e)

(***************************************************************************)
(* Claims about the response cache                                         *)
(***************************************************************************)

\* C8: a getCachedResponse of a key that setCachedResponse has written
\* returns the written result when the time since the write is at most the
\* TTL, and null when it is more.
C8_ReadAfterWrite ==
    [][\A e \in Executions :
        (xPc[e] = "idle" /\ xPc'[e] # "idle" /\ xUse'[e]
            /\ KeyOf(xReq'[e]) \in DOMAIN cLast) =>
            LET written == cLast[KeyOf(xReq'[e])]
            IN xGot'[e] = IF now - written.timestamp <= CACHE_TTL
                          THEN written.response ELSE NoResponse]_vars

\* A read exactly one TTL after the write returned the written result.
C8_Witness ==
    \E e \in Executions :
        /\ xPc[e] = "done" /\ xUse[e] /\ xGot[e] # NoResponse
        /\ KeyOf(xReq[e]) \in DOMAIN cLast
        /\ now - cLast[KeyOf(xReq[e])].timestamp = CACHE_TTL
        /\ xGot[e] = cLast[KeyOf(xReq[e])].response

\* C10 as stated: an entry keeps the result and the timestamp first written
\* until it is deleted; here for an entry still within its TTL, which no
\* read can have found too old.
C10_EntryNeverMutated ==
    [][\A k \in DOMAIN files :
        (ParseOk(files[k]) /\ ~Expired(now, Parse(files[k]).timestamp, CACHE_TTL)) =>
            \/ k \in DOMAIN files' /\ files'[k] = files[k]
            \/ k \notin DOMAIN files' /\ cRet' # cRet]_vars

\* C10, amended: no read and no clearCache changes or removes an entry; an
\* entry changes only when an execution that missed on its key writes the
\* key again, which replaces result and timestamp.
C10_EntryChangesOnlyByRewrite ==
    [][\A k \in DOMAIN files :
        /\ k \in DOMAIN files'
        /\ files'[k] # files[k] =>
              \E e \in Executions :
                  /\ xPc[e] = "calling" /\ xPc'[e] = "done" /\ xUse[e]
                  /\ KeyOf(xReq[e]) = k
                  /\ xOut'[e].success
                  /\ LET text == Stringify([timestamp |-> now,
                                            response |-> xOut'[e].result])
                     IN files'[k] \in {text, Truncated(text)}]_vars

\* A second execution of the same request replaced an entry that was still
\* within its TTL.
C10_Witness ==
    /\ cReplaced
    /\ \E e \in Executions :
        /\ xPc[e] = "done" /\ xUse[e] /\ xOut[e].success /\ ~xOut[e].fromCache
        /\ KeyOf(xReq[e]) \in DOMAIN files
        /\ ParseOk(files[KeyOf(xReq[e])])
        /\ Parse(files[KeyOf(xReq[e])]) = [timestamp |-> now, response |-> xOut[e].result]
        /\ \E d \in Executions \ {e} :
            /\ xPc[d] = "done" /\ xUse[d] /\ xOut[d].success /\ ~xOut[d].fromCache
            /\ xReq[d] = xReq[e]
            /\ xOut[d].result # xOut[e].result

\* C11: a cache I/O failure never reaches the caller: a read of an entry
\* that does not parse returns null and the execution goes on to the
\* provider, and an execution whose setCachedResponse fails to write ends
\* with its successful record, the warning logged.
C11_CacheFailuresSwallowed ==
    [][\A e \in Executions :
        /\ (xPc[e] = "idle" /\ xPc'[e] # "idle" /\ xUse'[e]
              /\ KeyOf(xReq'[e]) \in DOMAIN files
              /\ ~ParseOk(files[KeyOf(xReq'[e])])) =>
                 xGot'[e] = NoResponse /\ xPc'[e] = "calling"
        /\ (xPc[e] = "calling" /\ xPc'[e] = "done" /\ xWrite'[e] = "failed") =>
                 /\ xOut'[e].success /\ ~xOut'[e].fromCache
                 /\ xOut'[e].result \in Completions
                 /\ cWarned']_vars

\* An execution whose write failed ended with a successful record, and
\* another one has read the entry that the failed write cut short and is
\* calling the provider.
C11_Witness ==
    \E e \in Executions :
        /\ xPc[e] = "done" /\ xUse[e] /\ xWrite[e] = "failed"
        /\ xOut[e].success /\ ~xOut[e].fromCache /\ cWarned
        /\ KeyOf(xReq[e]) \in DOMAIN files
        /\ ~ParseOk(files[KeyOf(xReq[e])])
        /\ \E d \in Executions \ {e} :
            /\ xPc[d] = "calling" /\ xUse[d] /\ xReq[d] = xReq[e]
            /\ xGot[d] = NoResponse

\* Two executions of one request, both with the cache in use, both missed.
BothMissed(e, d) ==
    /\ e # d
    /\ xReq[e] = xReq[d]
    /\ xUse[e] /\ xUse[d]
    /\ xGot[e] = NoResponse /\ xGot[d] = NoResponse

\* C21: two concurrent executions of one request that both miss the cache
\* are not merged: each makes its provider call and writes the entry, and
\* the entry is the result of the one that wrote last.
C21_LastWriterWins ==
    /\ [][\A e, d \in Executions :
            (/\ xPc[e] = "calling" /\ xPc'[e] = "done" /\ xWrite'[e] = "written"
             /\ xPc[d] = "done" /\ xWrite[d] = "written"
             /\ BothMissed(e, d)) =>
                /\ KeyOf(xReq[e]) \in DOMAIN files'
                /\ files'[KeyOf(xReq[e])] =
                       Stringify([timestamp |-> now, response |-> xOut'[e].result])]_vars
    /\ [](\A e, d \in Executions :
            (/\ xPc[e] = "done" /\ xPc[d] = "done" /\ BothMissed(e, d)
             /\ xWrite[e] = "written" /\ xWrite[d] = "written") =>
                /\ KeyOf(xReq[e]) \in DOMAIN files
                /\ ParseOk(files[KeyOf(xReq[e])])
                /\ Parse(files[KeyOf(xReq[e])]).response \in
                       {xOut[e].result, xOut[d].result}
                /\ Parse(files[KeyOf(xReq[e])]) = cLast[KeyOf(xReq[e])])

\* Both executions missed with no entry stored, both called the provider and
\* wrote, with different results; the entry is the result of the later one.
C21_Witness ==
    \E e, d \in Executions :
        /\ xPc[e] = "done" /\ xPc[d] = "done" /\ BothMissed(e, d)
        /\ xWrite[e] = "written" /\ xWrite[d] = "written"
        /\ xOut[e].result # xOut[d].result
        /\ cReplaced
        /\ Parse(files[KeyOf(xReq[e])]).response = xOut[e].result

\* The cache holds an entry of the key that parses and is within its TTL.
HasFreshEntry(cacheKey) ==
    /\ cacheKey \in DOMAIN files
    /\ ParseOk(files[cacheKey])
    /\ ~Expired(now, Parse(files[cacheKey]).timestamp, CACHE_TTL)

\* C28: with the cache in use and a fresh entry of its key, an execution
\* ends without the rate-limited provider call, with the cached text, the
\* cache-hit flag and latency 0, and writes nothing; with the cache not in
\* use an execution reads no entry, makes its provider call even when a
\* fresh entry is there, and writes no entry.
C28_HitSkipsProviderAndLimiter ==
    [][\A e \in Executions :
        /\ (xPc[e] = "idle" /\ xPc'[e] # "idle" /\ xUse'[e]
              /\ HasFreshEntry(KeyOf(xReq'[e]))) =>
                 /\ xPc'[e] = "done"
                 /\ xOut'[e].success /\ xOut'[e].fromCache
                 /\ xOut'[e].result.text = Parse(files[KeyOf(xReq'[e])]).response.text
                 /\ xOut'[e].result.latencyMs = 0
                 /\ xWrite'[e] = "none"
                 /\ files' = files
        /\ (xPc[e] = "idle" /\ xPc'[e] # "idle" /\ ~xUse'[e]) =>
                 /\ xPc'[e] = "calling"
                 /\ xGot'[e] = NoResponse
                 /\ files' = files
        /\ (xPc[e] = "calling" /\ xPc'[e] = "done" /\ ~xUse[e]) =>
                 /\ files' = files
                 /\ xWrite'[e] = "none"
                 /\ xOut'[e].success => ~xOut'[e].fromCache]_vars

\* One execution was served from the cache with latency 0 while another one,
\* with the cache not in use, made its provider call for the same request
\* and left the entry as it was.
C28_Witness ==
    \E e, d \in Executions :
        /\ e # d /\ xReq[e] = xReq[d]
        /\ xPc[e] = "done" /\ xUse[e] /\ xOut[e].success /\ xOut[e].fromCache
        /\ xOut[e].result.latencyMs = 0
        /\ xPc[d] = "done" /\ ~xUse[d] /\ xOut[d].success /\ ~xOut[d].fromCache
        /\ xWrite[d] = "none"
        /\ xOut[d].result.text # xOut[e].result.text
        /\ HasFreshEntry(KeyOf(xReq[e]))
        /\ Parse(files[KeyOf(xReq[e])]).response.text = xOut[e].result.text

\* C29: the cache holds only results of provider calls that returned: an
\* execution whose provider call fails writes nothing, every entry that
\* can be read is a returned result, and what an execution is served from
\* the cache is such a result.
C29_OnlySuccessesCached ==
    /\ [][\A e \in Executions :
            (xPc[e] = "calling" /\ xPc'[e] = "done" /\ ~xOut'[e].success) =>
                /\ files' = files
                /\ xWrite'[e] = "none"]_vars
    /\ [](\A k \in DOMAIN files :
            ParseOk(files[k]) => Parse(files[k]).response \in Completions)
    /\ [](\A e \in Executions :
            (xPc[e] = "done" /\ xOut[e].success /\ xOut[e].fromCache) =>
                \E c \in Completions : xOut[e].result = [c EXCEPT !.latencyMs = 0])

\* The provider call of an execution failed with the cache in use and left
\* no entry; a later execution of the same request missed and is calling
\* the provider.
C29_Witness ==
    \E e, d \in Executions :
        /\ e # d /\ xReq[e] = xReq[d]
        /\ xPc[e] = "done" /\ xUse[e] /\ ~xOut[e].success
        /\ xOut[e].error = ErrServer
        /\ KeyOf(xReq[e]) \notin DOMAIN files
        /\ xPc[d] = "calling" /\ xUse[d] /\ xGot[d] = NoResponse

\* C23: clearCache deletes every entry and returns how many it deleted, so
\* that afterwards no key stored before the call is found.
C23_ClearCacheDeletesAll ==
    [][cRet' # cRet =>
          /\ files' = <<>>
          /\ cRet'.kind = "count"
          /\ cRet'.count = Cardinality(DOMAIN files)]_vars

(***************************************************************************)
(* compareTraces                                                           *)
(***************************************************************************)

\* The (test case, provider, model) triples the two traces draw from.
TracePairs ==
    {<<"caseA", "openai", "m1">>, <<"caseA", "openai", "m2">>,
     <<"caseB", "openai", "m1">>}

\* The pass field of a trace record read back from its file: true, false or
\* null (skipped or inconclusive evaluation, failed execution).
TracePass == {"true", "false", "null"}

\* A record of a saved trace, of the fields compareTraces reads.
SavedRecords ==
    {[testCase |-> pr[1], provider |-> pr[2], model |-> pr[3], pass |-> ps] :
        pr \in TracePairs, ps \in TracePass}

\* `${r.testCase}|${r.provider}/${r.model}`
CompareKey(r) == <<r.testCase, "|", r.provider, "/", r.model>>

\* The results of a saved run: one record for each pair of the run.
SavedResults ==
    UNION {{rs \in [1..n -> SavedRecords] :
                \A i, j \in 1..n : CompareKey(rs[i]) = CompareKey(rs[j]) => i = j} :
           n \in 0..Cardinality(TracePairs)}

TraceFile(rs) == [kind |-> "trace", results |-> rs]
NoTraceFile == [kind |-> "missing", results |-> <<>>]

\* loadTrace(traceId) finds the file or throws 'Trace not found'.
LoadTraceOk(file) == file.kind = "trace"

\* The lookup the first loop builds; a later record replaces an earlier one
\* of its key.
OldResults(rs) ==
    [key \in {CompareKey(rs[i]) : i \in 1..Len(rs)} |->
        rs[CHOOSE i \in 1..Len(rs) :
              /\ CompareKey(rs[i]) = key
              /\ \A j \in 1..Len(rs) : CompareKey(rs[j]) = key => j <= i]]

\* r.pass as a condition.
PassTruthy(r) == r.pass = "true"

Regression(r) ==
    [testCase |-> r.testCase, model |-> <<r.provider, "/", r.model>>,
     was |-> "PASS", now |-> "FAIL"]

Improvement(r) ==
    [testCase |-> r.testCase, model |-> <<r.provider, "/", r.model>>,
     was |-> "FAIL", now |-> "PASS"]

CompareInit ==
    /\ gOld \in {TraceFile(rs) : rs \in SavedResults} \cup {NoTraceFile}
    /\ gNew \in {TraceFile(rs) : rs \in SavedResults} \cup {NoTraceFile}
    /\ gPc = "call"
    /\ oldResults = <<>>
    /\ gNext = 1
    /\ regressions = <<>>
    /\ improvements = <<>>

\* The two loadTrace calls and the first loop.
CompareLoad ==
    /\ gPc = "call"
    /\ IF LoadTraceOk(gOld) /\ LoadTraceOk(gNew)
         THEN gPc' = "loop" /\ oldResults' = OldResults(gOld.results)
         ELSE gPc' = "thrown" /\ UNCHANGED oldResults
    /\ UNCHANGED <<gOld, gNew, gNext, regressions, improvements>>
    /\ CompareFrame

\* One iteration of the second loop.
CompareResult ==
    /\ gPc = "loop"
    /\ gNext <= Len(gNew.results)
    /\ LET newResult == gNew.results[gNext]
           key == CompareKey(newResult)
       IN  IF key \in DOMAIN oldResults
             THEN IF PassTruthy(oldResults[key]) /\ ~PassTruthy(newResult)
                    THEN /\ regressions' = Append(regressions, Regression(newResult))
                         /\ UNCHANGED improvements
                    ELSE IF ~PassTruthy(oldResults[key]) /\ PassTruthy(newResult)
                           THEN /\ improvements' =
                                      Append(improvements, Improvement(newResult))
                                /\ UNCHANGED regressions
                           ELSE UNCHANGED <<regressions, improvements>>
             ELSE UNCHANGED <<regressions, improvements>>
    /\ gNext' = gNext + 1
    /\ UNCHANGED <<gOld, gNew, gPc, oldResults>>
    /\ CompareFrame

\* return { regressions, improvements }
CompareReturn ==
    /\ gPc = "loop"
    /\ gNext > Len(gNew.results)
    /\ gPc' = "returned"
    /\ UNCHANGED <<gOld, gNew, oldResults, gNext, regressions, improvements>>
    /\ CompareFrame

CompareNext ==
    \/ CompareLoad
    \/ CompareResult
    \/ CompareReturn

\* The pairs of both traces whose verdict went from one value to another.
SharedPairs(was, is) ==
    {<<o.testCase, <<o.provider, "/", o.model>>>> :
        o \in {r \in {gOld.results[i] : i \in 1..Len(gOld.results)} :
                 /\ r.pass = was
                 /\ \E j \in 1..Len(gNew.results) :
                       /\ CompareKey(gNew.results[j]) = CompareKey(r)
                       /\ gNew.results[j].pass = is}}

PairsOf(list) == {<<list[i].testCase, list[i].model>> : i \in 1..Len(list)}

\* C18: compareTraces returns as regressions exactly the pairs of both traces
\* that passed in the old one and failed in the new one, as improvements
\* exactly those that failed in the old one and pass in the new one; a pair
\* with a null verdict on either side, or of one trace only, is in neither.
C18_CompareClassifies ==
    gPc = "returned" =>
        /\ PairsOf(regressions) = SharedPairs("true", "false")
        /\ PairsOf(improvements) = SharedPairs("false", "true")

(***************************************************************************)
(* Specifications                                                          *)
(***************************************************************************)

RetryInit0 ==
    /\ MAX_RETRIES = 2
    /\ rPc = "done"
    /\ attempt = 1
    /\ lastError = Null
    /\ rCalls = 0
    /\ rErrors = <<>>
    /\ rWaits = <<>>
    /\ rRet = NoRecord

EvalRunInit0 ==
    /\ parallel = FALSE
    /\ PARALLEL_LIMIT = 1
    /\ cliProvider = ""
    /\ models = <<>>
    /\ ePc = "done"
    /\ idx = 1
    /\ slots = <<>>
    /\ results = <<>>
    /\ trace = NoTrace
    /\ traceFiles = {}
    /\ eThrown = Null
    /\ eFailedPairs = {}
    /\ eCompleted = <<>>

EvaluateInit0 ==
    /\ vCase = <<>>
    /\ vResponse = <<>>
    /\ vEnv = <<>>
    /\ vPc = "returned"
    /\ vOut = NoVerdict

LimiterInit0 ==
    /\ requestTokens = 0
    /\ tokenBucket = 0
    /\ lAge = 0
    /\ lPc = <<>>
    /\ lTimer = <<>>
    /\ lCalls = 0
    /\ lUsage = <<>>

CacheInit0 ==
    /\ now = 0
    /\ files = <<>>
    /\ cRet = NoRecord
    /\ cReplaced = FALSE
    /\ cLast = <<>>
    /\ xPc = <<>>
    /\ xReq = <<>>
    /\ xUse = <<>>
    /\ xGot = <<>>
    /\ xOut = <<>>
    /\ xWrite = <<>>
    /\ cWarned = FALSE

CompareInit0 ==
    /\ gOld = NoTraceFile
    /\ gNew = NoTraceFile
    /\ gPc = "thrown"
    /\ oldResults = <<>>
    /\ gNext = 1
    /\ regressions = <<>>
    /\ improvements = <<>>

RegistryInit0 ==
    /\ limiters = <<>>
    /\ pObjects = <<>>
    /\ pNow = 0
    /\ pPc = <<>>
    /\ pProvider = <<>>
    /\ pLimiter = <<>>
    /\ pCalls = 0

SanitizeInit0 ==
    /\ sText = <<>>
    /\ sCase = <<>>
    /\ sEnv = <<>>
    /\ sPc = "returned"
    /\ sClean = <<>>
    /\ sOut = NoVerdict

\* One call of runTestCaseWithRetry.
InitRetry ==
    /\ RetryInit /\ EvalRunInit0 /\ EvaluateInit0 /\ LimiterInit0
    /\ CacheInit0 /\ CompareInit0 /\ RegistryInit0 /\ SanitizeInit0

SpecRetry ==
    /\ InitRetry
    /\ [][RetryNext]_vars

\* One call of runEval.
InitRunEval ==
    /\ EvalRunInit /\ RetryInit0 /\ EvaluateInit0 /\ LimiterInit0
    /\ CacheInit0 /\ CompareInit0 /\ RegistryInit0 /\ SanitizeInit0

SpecRunEval ==
    /\ InitRunEval
    /\ [][EvalRunNext]_vars

\* One call of evaluate.
InitEvaluate ==
    /\ EvaluateInit /\ RetryInit0 /\ EvalRunInit0 /\ LimiterInit0
    /\ CacheInit0 /\ CompareInit0 /\ RegistryInit0 /\ SanitizeInit0

SpecEvaluate ==
    /\ InitEvaluate
    /\ [][EvaluateNext]_vars

\* Callers of one RateLimiter.
InitLimiter ==
    /\ LimiterInit /\ RetryInit0 /\ EvalRunInit0 /\ EvaluateInit0
    /\ CacheInit0 /\ CompareInit0 /\ RegistryInit0 /\ SanitizeInit0

SpecLimiter ==
    /\ InitLimiter
    /\ [][LimiterNext]_vars

\* The same, with the event loop's progress.
SpecLimiterFair == SpecLimiter /\ LimiterFairness

\* Executions of runTestCase on one cache directory.
InitCache ==
    /\ CacheInit /\ RetryInit0 /\ EvalRunInit0 /\ EvaluateInit0
    /\ LimiterInit0 /\ CompareInit0 /\ RegistryInit0 /\ SanitizeInit0

SpecCache ==
    /\ InitCache
    /\ [][CacheNext]_vars

\* One call of compareTraces on two trace ids.
InitCompare ==
    /\ CompareInit /\ RetryInit0 /\ EvalRunInit0 /\ EvaluateInit0
    /\ LimiterInit0 /\ CacheInit0 /\ RegistryInit0 /\ SanitizeInit0

SpecCompare ==
    /\ InitCompare
    /\ [][CompareNext]_vars

\* The limiters of the providers and the withRateLimit calls on them.
InitRegistry ==
    /\ RegistryInit /\ RetryInit0 /\ EvalRunInit0 /\ EvaluateInit0
    /\ LimiterInit0 /\ CacheInit0 /\ CompareInit0 /\ SanitizeInit0

SpecRegistry ==
    /\ InitRegistry
    /\ [][RegistryNext]_vars

\* StripThinkingTags and evaluate on texts with thinking tags.
InitSanitize ==
    /\ SanitizeInit /\ RetryInit0 /\ EvalRunInit0 /\ EvaluateInit0
    /\ LimiterInit0 /\ CacheInit0 /\ CompareInit0 /\ RegistryInit0

SpecSanitize ==
    /\ InitSanitize
    /\ [][SanitizeNext]_vars

====
